---- MODULE Spec2Model ----
(***************************************************************************)
(* Model of the interview client in frontend/script.js: the Session        *)
(* Controller (start, send turn, terminate, download), the speech output   *)
(* adapter (speakText) and the speech input adapter (recognition).         *)
(*                                                                         *)
(* JavaScript runs each handler to completion up to its next pending       *)
(* await, so one action of the model is one such run: an event handler or  *)
(* the resumption of an async function when the awaited request or audio   *)
(* completes, together with everything it calls synchronously.             *)
(***************************************************************************)
EXTENDS Integers, Sequences, FiniteSets, TLC

\* Bound on the number of /api/start and /api/chat requests issued in a run.
MaxReqs == 2

\* The same bound for the runs that need three requests (two starts and a
\* chat turn, or a start and two chat turns).
MaxReqsWide == 3

\* Bound on the keys (interview_id, qa_id) of the rows of the database.
MaxKey == 3

\* `let interviewId = null`
Null == 0

\* NULL in a column of the database
SqlNull == Null

\* Key values a statement may give
Keys == 1..MaxKey

\* Values a text field may hold: empty, whitespace only, padded text.
Texts == {<< >>, <<" ">>, <<" ", "a">>}

VARIABLES
    interviewId,            \* let interviewId
    isAIReplying,           \* let isAIReplying
    userInputDisabled,      \* userInput.disabled
    sendBtnDisabled,        \* sendBtn.disabled
    speechBtnDisabled,      \* speechBtn.disabled
    userInputValue,         \* userInput.value
    chatbox,                \* children of #chatbox, the Message Log
    initialSetupVisible,    \* initialSetup.style.display # 'none'
    interviewPanelVisible,  \* interviewPanel.style.display = 'block'
    downloadBtnVisible,     \* downloadBtn.style.display = 'block'
    hasRecognition,         \* window.SpeechRecognition is present
    recognition,            \* state of the recognition object
    tasks,                  \* async functions suspended at an await
    nextReq,                \* number of the next /api/start or /api/chat request
    reqBudget,              \* bound of the run on nextReq, fixed by Init
    lastAlert,              \* last alert() shown
    lastError,              \* last console.error() written
    reportId,               \* id of the last report URL navigated to
    interviews,             \* rows of table interviews
    questions_answers       \* rows of table questions_answers

vars == <<interviewId, isAIReplying, userInputDisabled, sendBtnDisabled,
          speechBtnDisabled, userInputValue, chatbox, initialSetupVisible,
          interviewPanelVisible, downloadBtnVisible, hasRecognition,
          recognition, tasks, nextReq, reqBudget, lastAlert, lastError,
          reportId, interviews, questions_answers>>

\* what no handler writes: the browser's capability, the bound of the run,
\* and the database, which only the backend touches
env == <<hasRecognition, reqBudget, interviews, questions_answers>>
controls == <<isAIReplying, userInputDisabled, sendBtnDisabled, speechBtnDisabled>>
panels == <<initialSetupVisible, interviewPanelVisible>>

----------------------------------------------------------------------------
(* Pure helpers *)

RECURSIVE TrimLeft(_)
TrimLeft(s) == IF s # << >> /\ Head(s) = " " THEN TrimLeft(Tail(s)) ELSE s

RECURSIVE TrimRight(_)
TrimRight(s) ==
    IF s # << >> /\ s[Len(s)] = " " THEN TrimRight(SubSeq(s, 1, Len(s) - 1)) ELSE s

\* String.prototype.trim
Trim(s) == TrimRight(TrimLeft(s))

\* A Turn of the Message Log. kind tells which text it carries: the user's
\* text (body), the response text or the final evaluation of request req, or
\* the generic error text.
Turn(sender, kind, req, body) ==
    [sender |-> sender, kind |-> kind, req |-> req, body |-> body]

\* addMessage(text, sender)
addMessage(box, turn) == Append(box, turn)

\* A suspended async function. kind "start" / "chat": the handler that issued
\* request id and processes its response; kind "end": endInterview for the
\* response of request id. pc "fetch": awaiting the request; "speak": awaiting
\* /api/speak; "playing": awaiting audio.onended; "stuck": the audio failed,
\* onended never fires.
Task(id, kind, pc, over) == [id |-> id, kind |-> kind, pc |-> pc, over |-> over]

\* recognition.stop()
RecognitionStop(rec) == IF rec = "listening" THEN "stopping" ELSE rec

\* The markup shows #initial-setup and hides #interview-panel until the
\* start handler reveals it
interviewPanelShownAtLoad == FALSE

\* The text input, the send button and the speech button are inside
\* #interview-panel: the user reaches them once it is displayed
panelControlsReachable == interviewPanelVisible

----------------------------------------------------------------------------
\* The page after DOMContentLoaded, in a run of at most budget requests
PageLoaded(budget) ==
    /\ interviewId = Null
    /\ isAIReplying = FALSE
    /\ userInputDisabled = FALSE
    /\ sendBtnDisabled = FALSE
    /\ hasRecognition \in BOOLEAN
    /\ speechBtnDisabled = ~hasRecognition
    /\ userInputValue = << >>
    /\ chatbox = << >>
    /\ initialSetupVisible = TRUE
    /\ interviewPanelVisible = interviewPanelShownAtLoad
    /\ downloadBtnVisible = FALSE
    /\ recognition = "idle"
    /\ tasks = {}
    /\ nextReq = 1
    /\ reqBudget = budget
    /\ lastAlert = "none"
    /\ lastError = "none"
    /\ reportId = Null

\* The schema right after the two CREATE TABLE statements
TablesCreated ==
    /\ interviews = {}
    /\ questions_answers = {}

Init == PageLoaded(MaxReqs) /\ TablesCreated

\* setControlsState(disabled), with rec the state of the recognition object
\* at the call
setControlsState(disabled, rec) ==
    /\ isAIReplying' = disabled
    /\ userInputDisabled' = disabled
    /\ sendBtnDisabled' = disabled
    /\ speechBtnDisabled' = disabled
    /\ recognition' = IF hasRecognition /\ disabled THEN RecognitionStop(rec) ELSE rec

----------------------------------------------------------------------------
(* Start *)

\* Mutant: only the name is validated
startInputMissing_NameOnly(userName, userExperience) ==
    Trim(userName) = << >>

\* `!userName || !userExperience`, on the trimmed values
startInputMissing(userName, userExperience) ==
    Trim(userName) = << >> \/ Trim(userExperience) = << >>

\* startBtn click with a missing name or experience
StartClickInvalid(userName, userExperience) ==
    /\ initialSetupVisible
    /\ startInputMissing(userName, userExperience)
    /\ lastAlert' = "validation"
    /\ UNCHANGED <<interviewId, controls, userInputValue, chatbox, panels,
                   downloadBtnVisible, env, recognition, tasks,
                   nextReq, lastError, reportId>>

\* startBtn click with a name and an experience: issues /api/start
StartClick(userName, userExperience) ==
    /\ initialSetupVisible
    /\ ~startInputMissing(userName, userExperience)
    /\ nextReq <= reqBudget
    /\ tasks' = tasks \cup {Task(nextReq, "start", "fetch", FALSE)}
    /\ nextReq' = nextReq + 1
    /\ UNCHANGED <<interviewId, controls, userInputValue, chatbox, panels,
                   downloadBtnVisible, env, recognition,
                   lastAlert, lastError, reportId>>

\* Mutant: the start handler forgets to keep data.interview_id
StartResponse_NoId(t, over) ==
    /\ t.kind = "start" /\ t.pc = "fetch"
    /\ initialSetupVisible' = FALSE
    /\ interviewPanelVisible' = TRUE
    /\ setControlsState(TRUE, recognition)
    /\ chatbox' = addMessage(chatbox, Turn("ai", "response", t.id, << >>))
    /\ tasks' = (tasks \ {t}) \cup {Task(t.id, "start", "speak", over)}
    /\ UNCHANGED <<interviewId, userInputValue, downloadBtnVisible, env,
                   nextReq, lastAlert, lastError, reportId>>

\* /api/start answered: data = {interview_id: t.id, response, interview_over: over}
StartResponse(t, over) ==
    /\ t.kind = "start" /\ t.pc = "fetch"
    /\ interviewId' = t.id
    /\ initialSetupVisible' = FALSE
    /\ interviewPanelVisible' = TRUE
    /\ setControlsState(TRUE, recognition)
    /\ chatbox' = addMessage(chatbox, Turn("ai", "response", t.id, << >>))
    /\ tasks' = (tasks \ {t}) \cup {Task(t.id, "start", "speak", over)}
    /\ UNCHANGED <<userInputValue, downloadBtnVisible, env,
                   nextReq, lastAlert, lastError, reportId>>

\* Mutant: the handler reveals the interview panel before the request has
\* succeeded
StartFail_RevealsPanel(t) ==
    /\ t.kind = "start" /\ t.pc = "fetch"
    /\ tasks' = tasks \ {t}
    /\ lastError' = "start"
    /\ lastAlert' = "start"
    /\ initialSetupVisible' = FALSE
    /\ interviewPanelVisible' = TRUE
    /\ UNCHANGED <<interviewId, controls, userInputValue, chatbox,
                   downloadBtnVisible, env, recognition, nextReq, reportId>>

\* /api/start rejected, or its body is not JSON
StartFail(t) ==
    /\ t.kind = "start" /\ t.pc = "fetch"
    /\ tasks' = tasks \ {t}
    /\ lastError' = "start"
    /\ lastAlert' = "start"
    /\ UNCHANGED <<interviewId, controls, userInputValue, chatbox, panels,
                   downloadBtnVisible, env, recognition,
                   nextReq, reportId>>

----------------------------------------------------------------------------
(* Send turn *)

\* sendMessage(), called with userInput.value = value while the recognition
\* object is in state rec
sendMessage(value, rec) ==
    LET userText == Trim(value) IN
    IF userText = << >> \/ isAIReplying
    THEN /\ userInputValue' = value
         /\ recognition' = rec
         /\ UNCHANGED <<interviewId, controls, chatbox, panels, downloadBtnVisible,
                        env, tasks, nextReq, lastAlert, lastError,
                        reportId>>
    ELSE /\ nextReq <= reqBudget
         /\ chatbox' = addMessage(chatbox, Turn("user", "user", nextReq, userText))
         /\ userInputValue' = << >>
         /\ setControlsState(TRUE, rec)
         /\ tasks' = tasks \cup {Task(nextReq, "chat", "fetch", FALSE)}
         /\ nextReq' = nextReq + 1
         /\ UNCHANGED <<interviewId, panels, downloadBtnVisible, env,
                        lastAlert, lastError, reportId>>

\* sendBtn click, with text in the input field
SendBtnClick(text) ==
    /\ panelControlsReachable /\ ~sendBtnDisabled
    /\ sendMessage(text, recognition)

\* userInput keypress with key 'Enter', with text in the input field
EnterKey(text) ==
    /\ panelControlsReachable /\ ~userInputDisabled
    /\ sendMessage(text, recognition)

\* finally block of sendMessage: the test that guards setControlsState(false)
downloadBtnHidden == ~downloadBtnVisible

\* Mutant: sendMessage stores the interview_id of the chat response
ChatResponse_StoresId(t, over) ==
    /\ t.kind = "chat" /\ t.pc = "fetch"
    /\ interviewId' = t.id
    /\ chatbox' = addMessage(chatbox, Turn("ai", "response", t.id, << >>))
    /\ tasks' = (tasks \ {t}) \cup {Task(t.id, "chat", "speak", over)}
    /\ UNCHANGED <<controls, userInputValue, panels,
                   downloadBtnVisible, env, recognition, nextReq,
                   lastAlert, lastError, reportId>>

\* /api/chat answered: processAndDisplayAIResponse(data) up to its await
ChatResponse(t, over) ==
    /\ t.kind = "chat" /\ t.pc = "fetch"
    /\ chatbox' = addMessage(chatbox, Turn("ai", "response", t.id, << >>))
    /\ tasks' = (tasks \ {t}) \cup {Task(t.id, "chat", "speak", over)}
    /\ UNCHANGED <<interviewId, controls, userInputValue, panels,
                   downloadBtnVisible, env, recognition, nextReq,
                   lastAlert, lastError, reportId>>

\* /api/chat rejected, or its body is not JSON: catch and finally of sendMessage
ChatFail(t) ==
    /\ t.kind = "chat" /\ t.pc = "fetch"
    /\ lastError' = "send"
    /\ chatbox' = addMessage(chatbox, Turn("ai", "error", 0, << >>))
    /\ IF downloadBtnHidden
       THEN setControlsState(FALSE, recognition)
       ELSE UNCHANGED <<controls, recognition>>
    /\ tasks' = tasks \ {t}
    /\ UNCHANGED <<interviewId, userInputValue, panels, downloadBtnVisible,
                   env, nextReq, lastAlert, reportId>>

----------------------------------------------------------------------------
(* Speech output and what follows it *)

\* The await of speakText in task t is over. For endInterview: the rest of
\* endInterview. For processAndDisplayAIResponse: the call of endInterview
\* (not awaited) up to its own await when the interview is over, then the
\* rest of the caller (start handler, or the finally block of sendMessage).
SpeechDone(t) ==
    IF t.kind = "end"
    THEN /\ setControlsState(TRUE, recognition)
         /\ downloadBtnVisible' = TRUE
         /\ tasks' = tasks \ {t}
         /\ UNCHANGED chatbox
    ELSE /\ IF t.over
            THEN /\ chatbox' = addMessage(chatbox, Turn("ai", "final", t.id, << >>))
                 /\ tasks' = (tasks \ {t}) \cup {Task(t.id, "end", "speak", TRUE)}
            ELSE /\ tasks' = tasks \ {t}
                 /\ UNCHANGED chatbox
         /\ IF t.kind = "start" \/ downloadBtnHidden
            THEN setControlsState(FALSE, recognition)
            ELSE UNCHANGED <<controls, recognition>>
         /\ UNCHANGED downloadBtnVisible

\* /api/speak answered with audio: audio.play()
SpeakOk(t) ==
    /\ t.pc = "speak"
    /\ tasks' = (tasks \ {t}) \cup {[t EXCEPT !.pc = "playing"]}
    /\ UNCHANGED <<interviewId, controls, userInputValue, chatbox, panels,
                   downloadBtnVisible, env, recognition, nextReq,
                   lastAlert, lastError, reportId>>

\* Mutant: the failure is logged but the promise of speakText never resolves
SpeakFail_NeverResolves(t) ==
    /\ t.pc = "speak"
    /\ lastError' = "speech"
    /\ tasks' = (tasks \ {t}) \cup {[t EXCEPT !.pc = "stuck"]}
    /\ UNCHANGED <<interviewId, controls, userInputValue, chatbox, panels,
                   downloadBtnVisible, env, recognition, nextReq, lastAlert,
                   reportId>>

\* /api/speak rejected or not ok: catch block of speakText
SpeakFail(t) ==
    /\ t.pc = "speak"
    /\ lastError' = "speech"
    /\ SpeechDone(t)
    /\ UNCHANGED <<interviewId, userInputValue, panels, env, nextReq,
                   lastAlert, reportId>>

\* audio.onended
AudioEnded(t) ==
    /\ t.pc = "playing"
    /\ SpeechDone(t)
    /\ UNCHANGED <<interviewId, userInputValue, panels, env, nextReq,
                   lastAlert, lastError, reportId>>

\* The audio cannot be played (play() rejects, decode error): onended never
\* fires and the promise of speakText stays pending
AudioError(t) ==
    /\ t.pc = "playing"
    /\ tasks' = (tasks \ {t}) \cup {[t EXCEPT !.pc = "stuck"]}
    /\ UNCHANGED <<interviewId, controls, userInputValue, chatbox, panels,
                   downloadBtnVisible, env, recognition, nextReq,
                   lastAlert, lastError, reportId>>

----------------------------------------------------------------------------
(* Speech input *)

\* speechBtn click
SpeechBtnClick ==
    /\ panelControlsReachable /\ ~speechBtnDisabled
    /\ recognition' =
          IF ~hasRecognition \/ isAIReplying THEN recognition
          ELSE IF recognition = "idle" THEN "listening"
          ELSE RecognitionStop(recognition)
    /\ UNCHANGED <<interviewId, controls, userInputValue, chatbox, panels,
                   downloadBtnVisible, env, tasks, nextReq,
                   lastAlert, lastError, reportId>>

\* recognition.onresult: a final transcript, while listening or after stop()
RecognitionResult(transcript) ==
    /\ recognition \in {"listening", "stopping"}
    /\ sendMessage(transcript, "ending")

\* recognition.onend: after a result, after stop(), or on silence
RecognitionEnd ==
    /\ recognition \in {"listening", "stopping", "ending"}
    /\ recognition' = "idle"
    /\ UNCHANGED <<interviewId, controls, userInputValue, chatbox, panels,
                   downloadBtnVisible, env, tasks, nextReq,
                   lastAlert, lastError, reportId>>

----------------------------------------------------------------------------
(* Download *)

\* downloadBtn click: window.location.href = `/api/report/${interviewId}`
DownloadClick ==
    /\ downloadBtnVisible
    /\ reportId' = interviewId
    /\ UNCHANGED <<interviewId, controls, userInputValue, chatbox, panels,
                   downloadBtnVisible, env, recognition, tasks,
                   nextReq, lastAlert, lastError>>

----------------------------------------------------------------------------
Next ==
    \/ \E userName \in Texts, userExperience \in Texts :
          StartClickInvalid(userName, userExperience)
    \/ \E userName \in Texts, userExperience \in Texts :
          StartClick(userName, userExperience)
    \/ \E t \in tasks, over \in BOOLEAN : StartResponse(t, over)
    \/ \E t \in tasks : StartFail(t)
    \/ \E text \in Texts : SendBtnClick(text)
    \/ \E text \in Texts : EnterKey(text)
    \/ \E t \in tasks, over \in BOOLEAN : ChatResponse(t, over)
    \/ \E t \in tasks : ChatFail(t)
    \/ \E t \in tasks : SpeakOk(t)
    \/ \E t \in tasks : SpeakFail(t)
    \/ \E t \in tasks : AudioEnded(t)
    \/ \E t \in tasks : AudioError(t)
    \/ SpeechBtnClick
    \/ \E transcript \in Texts : RecognitionResult(transcript)
    \/ RecognitionEnd
    \/ DownloadClick

Spec == Init /\ [][Next]_vars

\* The same program with room for three requests
InitWide == PageLoaded(MaxReqsWide) /\ TablesCreated

SpecWide == InitWide /\ [][Next]_vars

----------------------------------------------------------------------------
(* Progress: every request completes or fails, and every playback that has *)
(* started ends or fails.                                                  *)

\* The awaited request or playback of the task (id, kind) completes or fails
Completion(id, kind) ==
    \E t \in tasks :
        /\ t.id = id /\ t.kind = kind
        /\ \/ \E over \in BOOLEAN : StartResponse(t, over) \/ ChatResponse(t, over)
           \/ StartFail(t) \/ ChatFail(t)
           \/ SpeakOk(t) \/ SpeakFail(t)
           \/ AudioEnded(t) \/ AudioError(t)

Fairness ==
    \A id \in 1..MaxReqs, kind \in {"start", "chat", "end"} :
        WF_vars(Completion(id, kind))

SpecLive == Init /\ [][Next]_vars /\ Fairness

----------------------------------------------------------------------------
(* The persisted schema: tables interviews and questions_answers. A row is *)
(* modelled by its constrained columns; the unconstrained nullable columns *)
(* (dates, texts, evaluations) are left out.                               *)

\* what the statements on the database leave alone
page == <<interviewId, controls, userInputValue, chatbox, panels,
          downloadBtnVisible, hasRecognition, reqBudget, recognition, tasks,
          nextReq, lastAlert, lastError, reportId>>

InterviewRow(interview_id) == [interview_id |-> interview_id]

QuestionAnswerRow(qa_id, interview_id) ==
    [qa_id |-> qa_id, interview_id |-> interview_id]

\* interview_id SERIAL PRIMARY KEY: not null, unique
InterviewsKeyHolds(ivs) ==
    /\ \A r \in ivs : r.interview_id # SqlNull
    /\ \A r1 \in ivs, r2 \in ivs : r1.interview_id = r2.interview_id => r1 = r2

\* qa_id SERIAL PRIMARY KEY: not null, unique
QuestionsAnswersKeyHolds(qas) ==
    /\ \A r \in qas : r.qa_id # SqlNull
    /\ \A r1 \in qas, r2 \in qas : r1.qa_id = r2.qa_id => r1 = r2

\* interview_id INTEGER REFERENCES interviews(interview_id): a NULL
\* interview_id satisfies the constraint, any other value must be the key of
\* a row of interviews
ForeignKeyHolds(ivs, qas) ==
    \A q \in qas :
        \/ q.interview_id = SqlNull
        \/ \E i \in ivs : i.interview_id = q.interview_id

\* The table constraints accept the tables ivs and qas
SchemaAccepts(ivs, qas) ==
    /\ InterviewsKeyHolds(ivs)
    /\ QuestionsAnswersKeyHolds(qas)
    /\ ForeignKeyHolds(ivs, qas)

\* The statement that turns the tables into ivs and qas is accepted
Statement(ivs, qas) ==
    /\ SchemaAccepts(ivs, qas)
    /\ interviews' = ivs
    /\ questions_answers' = qas
    /\ UNCHANGED page

\* INSERT INTO interviews; user_name is NOT NULL
InsertInterview(interview_id, userNameGiven) ==
    /\ userNameGiven
    /\ InterviewRow(interview_id) \notin interviews
    /\ Statement(interviews \cup {InterviewRow(interview_id)}, questions_answers)

\* UPDATE interviews SET interview_id = new WHERE interview_id = old
UpdateInterview(old, new) ==
    /\ InterviewRow(old) \in interviews
    /\ new # old
    /\ InterviewRow(new) \notin interviews
    /\ Statement((interviews \ {InterviewRow(old)}) \cup {InterviewRow(new)},
                 questions_answers)

\* DELETE FROM interviews WHERE interview_id = ...
DeleteInterview(interview_id) ==
    /\ InterviewRow(interview_id) \in interviews
    /\ Statement(interviews \ {InterviewRow(interview_id)}, questions_answers)

\* INSERT INTO questions_answers; question_text is NOT NULL
InsertQuestionAnswer(qa_id, interview_id, questionTextGiven) ==
    /\ questionTextGiven
    /\ \A r \in questions_answers : r.qa_id # qa_id
    /\ Statement(interviews,
                 questions_answers \cup {QuestionAnswerRow(qa_id, interview_id)})

\* UPDATE questions_answers SET interview_id = ... WHERE qa_id = ...
UpdateQuestionAnswer(qa_id, interview_id) ==
    \E r \in questions_answers :
        /\ r.qa_id = qa_id
        /\ r.interview_id # interview_id
        /\ Statement(interviews,
                     (questions_answers \ {r})
                        \cup {QuestionAnswerRow(qa_id, interview_id)})

\* DELETE FROM questions_answers WHERE qa_id = ...
DeleteQuestionAnswer(qa_id) ==
    \E r \in questions_answers :
        /\ r.qa_id = qa_id
        /\ Statement(interviews, questions_answers \ {r})

NextDb ==
    \/ \E k \in Keys \cup {SqlNull}, given \in BOOLEAN : InsertInterview(k, given)
    \/ \E old \in Keys, new \in Keys \cup {SqlNull} : UpdateInterview(old, new)
    \/ \E k \in Keys : DeleteInterview(k)
    \/ \E k \in Keys \cup {SqlNull}, i \in Keys \cup {SqlNull}, given \in BOOLEAN :
          InsertQuestionAnswer(k, i, given)
    \/ \E k \in Keys, i \in Keys \cup {SqlNull} : UpdateQuestionAnswer(k, i)
    \/ \E k \in Keys : DeleteQuestionAnswer(k)

SpecDb == Init /\ [][NextDb]_vars
----------------------------------------------------------------------------
(* Properties *)

controlsDisabled ==
    isAIReplying /\ userInputDisabled /\ sendBtnDisabled /\ speechBtnDisabled

controlsEnabled ==
    ~isAIReplying /\ ~userInputDisabled /\ ~sendBtnDisabled /\ ~speechBtnDisabled

\* C1: at most one /api/start or /api/chat request is in flight at any time.
C1_AtMostOneRequestInFlight ==
    Cardinality({t \in tasks : t.pc = "fetch"}) <= 1

\* C2: once the session is terminated (download button revealed), the
\* controls stay disabled and no Turn is appended to the Message Log.
C2_TerminatedIsFinal ==
    [][downloadBtnVisible => (controlsDisabled' /\ chatbox' = chatbox)]_vars

\* A response with interview_over has been received and Terminate has not
\* completed
TerminationPending == \E t \in tasks : t.over /\ t.pc # "fetch"

\* C3: between the receipt of a response with interview_over and the
\* completion of Terminate, no user Turn is appended and no /api/chat
\* request is issued.
C3_NoUserTurnDuringTermination ==
    [][TerminationPending =>
          /\ \/ chatbox' = chatbox
             \/ chatbox'[Len(chatbox')].sender # "user"
          /\ {t \in tasks' \ tasks : t.kind = "chat" /\ t.pc = "fetch"} = {}]_vars

\* C4: while a chat response is awaited or an utterance started by speakText
\* has not signalled completion, isAIReplying is true and the controls are
\* disabled.
C4_BusyImpliesDisabled ==
    (\E t \in tasks : (t.kind = "chat" /\ t.pc = "fetch")
                        \/ t.pc \in {"speak", "playing", "stuck"})
        => controlsDisabled

\* C5: each processed response appends exactly one AI Turn with its text
\* when its speak request is issued, and the controls are not enabled while
\* the utterance of that response has not signalled completion.
C5_TurnThenSpeechThenControls ==
    [][\A t \in tasks' :
          (t.kind \in {"start", "chat"} /\ t.pc \in {"speak", "playing", "stuck"})
             => /\ isAIReplying'
                /\ (t.pc = "speak" /\ t \notin tasks)
                      => chatbox' = Append(chatbox, Turn("ai", "response", t.id, << >>))]_vars

\* C6: interviewId, once assigned a non-null value, never changes.
C6_InterviewIdSetOnce ==
    [][interviewId # Null => interviewId' = interviewId]_vars

\* C7: a failed chat request appends exactly one AI Turn, the generic error
\* text, re-enables the controls, leaves interviewId unchanged and the
\* download button hidden, and issues no request.
C7_ChatFailureReturnsToActive ==
    [][\A t \in tasks : ChatFail(t) =>
          /\ chatbox' = Append(chatbox, Turn("ai", "error", 0, << >>))
          /\ controlsEnabled'
          /\ interviewId' = interviewId
          /\ ~downloadBtnVisible'
          /\ tasks' = tasks \ {t}
          /\ nextReq' = nextReq]_vars

\* C8: a failed start request leaves interviewId (null before the first
\* successful start), the panels, the Message Log, isAIReplying and the
\* controls as they were, surfaces an alert and issues no request.
C8_StartFailureStaysNotStarted ==
    [][\A t \in tasks : StartFail(t) =>
          /\ interviewId' = interviewId
          /\ (interviewId = Null => interviewId' = Null /\ ~interviewPanelVisible'
                                     /\ initialSetupVisible' /\ chatbox' = << >>)
          /\ UNCHANGED <<panels, chatbox, controls, downloadBtnVisible>>
          /\ lastAlert' = "start"
          /\ tasks' = tasks \ {t}
          /\ nextReq' = nextReq]_vars

\* C8 witness: a start request has failed and the session is NotStarted
C8_Witness ==
    /\ lastAlert = "start" /\ lastError = "start"
    /\ interviewId = Null /\ ~interviewPanelVisible /\ initialSetupVisible
    /\ chatbox = << >> /\ ~isAIReplying /\ tasks = {}

\* C9: a Send-turn invocation with empty trimmed text, or while isAIReplying
\* is true, or once terminated, appends no Turn, issues no request and
\* leaves the session and control states unchanged.
C9_RejectedSendIsNoOp ==
    [][\A text \in Texts :
          (/\ SendBtnClick(text) \/ EnterKey(text) \/ RecognitionResult(text)
           /\ Trim(text) = << >> \/ isAIReplying \/ downloadBtnVisible)
          => /\ chatbox' = chatbox
             /\ tasks' = tasks
             /\ nextReq' = nextReq
             /\ UNCHANGED <<controls, interviewId, panels, downloadBtnVisible>>]_vars

\* What follows an utterance of task t that has signalled completion: no
\* Turn of its own; Terminate begins (final Turn, speak request) when t
\* processed a response with interview_over; endInterview disables the
\* controls and reveals the download button; the start handler, and
\* sendMessage unless the download button is visible, re-enable the controls.
AfterUtterance(t) ==
    /\ IF t.kind # "end" /\ t.over
       THEN /\ chatbox' = Append(chatbox, Turn("ai", "final", t.id, << >>))
            /\ tasks' = (tasks \ {t}) \cup {Task(t.id, "end", "speak", TRUE)}
       ELSE /\ chatbox' = chatbox
            /\ tasks' = tasks \ {t}
    /\ t.kind = "end" => controlsDisabled' /\ downloadBtnVisible'
    /\ (t.kind = "start" \/ (t.kind = "chat" /\ ~downloadBtnVisible))
          => controlsEnabled' /\ downloadBtnVisible' = downloadBtnVisible
    /\ (t.kind = "chat" /\ downloadBtnVisible)
          => UNCHANGED <<controls, downloadBtnVisible>>
    /\ UNCHANGED <<interviewId, panels, nextReq>>

\* C10: a failed /api/speak request signals completion at once: no audio is
\* played, no Turn of its own is appended, and the caller goes on exactly as
\* after a playback that ended.
C10_SpeakFailureResolves ==
    [][\A t \in tasks :
          /\ AudioEnded(t) => AfterUtterance(t)
          /\ SpeakFail(t) =>
                /\ AfterUtterance(t)
                /\ {u \in tasks' : u.pc \in {"playing", "stuck"}} \subseteq tasks]_vars

\* C10 witness: the speak request of a chat response has failed, nothing is
\* playing and the controls are enabled again
C10_Witness ==
    /\ lastError = "speech"
    /\ tasks = {}
    /\ controlsEnabled
    /\ Len(chatbox) >= 3
    /\ chatbox[Len(chatbox)].kind = "response"
    /\ chatbox[Len(chatbox) - 1].sender = "user"
\* C11: without speech recognition in the browser, the speech button is
\* disabled in every state.
C11_NoRecognitionSpeechDisabled ==
    ~hasRecognition => speechBtnDisabled

\* C12: interviewId changes only when a start response is captured, to the
\* interview_id of that response: no step of a chat turn (accepted, answered,
\* failed, spoken or terminating) changes it; and Download, available once
\* terminated, navigates to the report of the current interviewId.
C12_DownloadUsesStartId ==
    [][/\ interviewId' # interviewId =>
             \E t \in tasks : /\ t.kind = "start" /\ t.pc = "fetch"
                              /\ t \notin tasks'
                              /\ interviewId' = t.id
       /\ reportId' # reportId =>
             /\ downloadBtnVisible
             /\ reportId' = interviewId
             /\ interviewId' = interviewId]_vars

\* C12 witness: after a chat turn that ended the interview, the report of
\* the id captured at start (request 1) has been requested
C12_Witness ==
    /\ downloadBtnVisible
    /\ reportId = 1 /\ interviewId = 1
    /\ \E i \in 1..Len(chatbox) : chatbox[i].sender = "user"
    /\ \E i \in 1..Len(chatbox) : chatbox[i].kind = "final" /\ chatbox[i].req = 2

\* C13: in the Message Log each user Turn is directly followed by an AI
\* Turn, and every AI Turn between a user Turn and the next user Turn is the
\* response or final evaluation of that user Turn's request, or the error
\* Turn.
C13_TurnsInSubmissionOrder ==
    \A i \in 1..Len(chatbox) :
        chatbox[i].sender = "user" =>
            /\ i < Len(chatbox) => chatbox[i + 1].sender = "ai"
            /\ \A j \in (i + 1)..Len(chatbox) :
                  (\A k \in (i + 1)..j : chatbox[k].sender = "ai")
                     => \/ chatbox[j].kind = "error"
                        \/ chatbox[j].req = chatbox[i].req

\* The Session Controller awaits a chat response or a playback
AwaitingResponse ==
    \E t \in tasks : (t.kind = "chat" /\ t.pc = "fetch")
                       \/ t.pc \in {"speak", "playing", "stuck"}

\* C15: a click on the speech button while the controller awaits a response
\* or a playback, or is terminated, does not start listening; and no step
\* that enters such a state leaves the recognition listening.
C15_RecognitionRejectedWhileBusy ==
    [][/\ (SpeechBtnClick /\ (AwaitingResponse \/ downloadBtnVisible))
             => (recognition' = "listening" => recognition = "listening")
       /\ (~(AwaitingResponse \/ downloadBtnVisible)
             /\ (AwaitingResponse \/ downloadBtnVisible)')
             => recognition' # "listening"]_vars

\* C16: a start click with an empty or whitespace-only name or experience
\* issues no request and changes nothing but the alert shown.
C16_InvalidStartIsNoOp ==
    [][\A userName \in Texts, userExperience \in Texts :
          (/\ StartClick(userName, userExperience)
                 \/ StartClickInvalid(userName, userExperience)
           /\ Trim(userName) = << >> \/ Trim(userExperience) = << >>)
          => /\ tasks' = tasks
             /\ nextReq' = nextReq
             /\ lastAlert' = "validation"
             /\ UNCHANGED <<interviewId, controls, panels, chatbox,
                            downloadBtnVisible, userInputValue>>]_vars

\* C16 witness: the validation alert has been shown and the session is
\* NotStarted with no request issued
C16_Witness ==
    /\ lastAlert = "validation"
    /\ nextReq = 1 /\ tasks = {}
    /\ interviewId = Null /\ ~isAIReplying
    /\ initialSetupVisible /\ ~interviewPanelVisible /\ chatbox = << >>

C14_EveryAnswerHasInterview ==
    \A q \in questions_answers :
        \E i \in interviews : i.interview_id = q.interview_id
====
